---- MODULE Spec2Model ----
(***************************************************************************)
(* Model of common/db/openssl/openssl.go: the SSLDBConnector (Configure,   *)
(* the dialer closure, GetNewSession) and the context builder setupCtx.    *)
(*                                                                         *)
(* The openssl and mgo libraries are the environment.  A fallible library  *)
(* call fails exactly when its name is in the set `fails` chosen for the   *)
(* Configure call; openssl.Dial and mgo.DialWithInfo choose their outcome  *)
(* nondeterministically.                                                   *)
(***************************************************************************)
EXTENDS Naturals, Sequences, FiniteSets, TLC

VARIABLES
    ctx,        \* self.ctx: the stored *openssl.Ctx, or NULL
    dialInfo,   \* self.dialInfo: the stored *mgo.DialInfo, or NULL
    dialError,  \* self.dialError: the error of the latest dialer run, or NULL
    fipsMode,   \* the process-wide FIPS mode of the openssl library
    call,       \* call[t]: the GetNewSession call goroutine t is in
    lastConf,   \* history: the most recent Configure call and its outcome
    ev          \* history: what the latest step did

vars == <<ctx, dialInfo, dialError, fipsMode, call, lastConf, ev>>

\* a nil pointer, and the nil error (errors are sequences of message parts)
NULL == [nil |-> TRUE]
NoError == <<>>

----------------------------------------------------------------------------
(* Bounds and input domains *)

\* At most this many library calls fail during one Configure.
MaxFail == 2

Threads == {"g1", "g2"}

CAFiles == {"", "ca.pem"}
PEMKeyFiles == {"", "client.pem"}
PEMKeyPasswords == {"", "secret"}
CRLFiles == {"", "crl.pem"}
Hosts == {<<"h1">>, <<"h1", "h2">>}
Ports == {"27017"}
Auths == { [Username |-> "", Password |-> "", Source |-> "", Mechanism |-> ""],
           [Username |-> "u", Password |-> "p", Source |-> "admin", Mechanism |-> "PLAIN"] }

\* options.ToolOptions, the fields openssl.go reads
ToolOptions ==
    [ Host : Hosts, Port : Ports, Auth : Auths,
      SSLFipsMode : BOOLEAN,
      SSLAllowInvalidCert : BOOLEAN,
      SSLAllowInvalidHost : BOOLEAN,
      SSLCAFile : CAFiles,
      SSLPEMKeyFile : PEMKeyFiles,
      SSLPEMKeyPassword : PEMKeyPasswords,
      SSLCRLFile : CRLFiles ]

\* The library calls of setupCtx that return an error, in source order.
FallibleCalls ==
    { "FIPSModeSet", "NewCtxWithVersion", "UseCertificateChainFile",
      "UsePrivateKeyFileWithPassword", "UsePrivateKeyFile", "CheckPrivateKey",
      "LoadClientCAFile", "LoadVerifyLocations", "AddLookup", "LoadCRLFile" }

FailSets == { f \in SUBSET FallibleCalls : Cardinality(f) <= MaxFail }

\* Errors openssl.Dial can return, and errors mgo.DialWithInfo can return.
DialErrors == {<<"handshake failure">>, <<"connection refused">>}
SessionErrors == {<<"no reachable servers">>}

DefaultSSLDialTimeout == 3

----------------------------------------------------------------------------
(* setupCtx *)

\* The context openssl.NewCtxWithVersion(openssl.AnyVersion) returns.
NewCtxWithVersion ==
    [ options |-> {}, cipherList |-> "DEFAULT",
      certChain |-> "", privateKey |-> "", privateKeyPassword |-> "",
      mode |-> {}, sessionCacheMode |-> "default",
      clientCAList |-> "", verifyLocations |-> "", verify |-> "default",
      storeFlags |-> {}, crl |-> "" ]

\* The local state of one run of setupCtx: the local ctx, the error returned
\* (NoError while running) and the fallible library calls made so far.
BuildStart == [ctx |-> NULL, err |-> NoError, calls |-> <<>>]

\* One fallible library call: skipped once setupCtx has returned; on failure
\* setupCtx returns the wrapped error `msg`; on success the local ctx
\* becomes `after`.
Try(b, name, fails, msg, after) ==
    IF b.err # NoError THEN b
    ELSE IF name \in fails
         THEN [b EXCEPT !.calls = Append(@, name), !.err = msg]
         ELSE [b EXCEPT !.calls = Append(@, name), !.ctx = after]

\* A library call that returns no error.
Set(b, after) == IF b.err # NoError THEN b ELSE [b EXCEPT !.ctx = after]

StepFIPSMode(b, opts, fails) ==
    Try(b, "FIPSModeSet", fails, <<"couldn't set FIPS mode">>, b.ctx)

StepNewCtx(b, opts, fails) ==
    Try(b, "NewCtxWithVersion", fails,
        <<"failure creating new openssl context with NewCtxWithVersion(AnyVersion)">>,
        NewCtxWithVersion)

StepSetOptions(b) == Set(b, [b.ctx EXCEPT !.options = {"OpAll", "NoSSLv2"}])

StepSetCipherList(b) ==
    Set(b, [b.ctx EXCEPT !.cipherList = "HIGH:!EXPORT:!aNULL@STRENGTH"])

StepPEMKeyFile(b, opts, fails) ==
    IF opts.SSLPEMKeyFile = "" THEN b
    ELSE
      LET b1 == Try(b, "UseCertificateChainFile", fails, <<"UseCertificateChainFile">>,
                    [b.ctx EXCEPT !.certChain = opts.SSLPEMKeyFile])
          b2 == IF opts.SSLPEMKeyPassword # ""
                THEN Try(b1, "UsePrivateKeyFileWithPassword", fails, <<"UsePrivateKeyFile">>,
                         [b1.ctx EXCEPT !.privateKey = opts.SSLPEMKeyFile,
                                        !.privateKeyPassword = opts.SSLPEMKeyPassword])
                ELSE Try(b1, "UsePrivateKeyFile", fails, <<"UsePrivateKeyFile">>,
                         [b1.ctx EXCEPT !.privateKey = opts.SSLPEMKeyFile])
      IN Try(b2, "CheckPrivateKey", fails, <<"CheckPrivateKey">>, b2.ctx)

StepSetMode(b) == Set(b, [b.ctx EXCEPT !.mode = @ \cup {"AutoRetry"}])

StepSessionCache(b) == Set(b, [b.ctx EXCEPT !.sessionCacheMode = "SessionCacheOff"])

VerifyOptionBad(opts) ==
    IF opts.SSLAllowInvalidCert \/ opts.SSLAllowInvalidHost
    THEN "VerifyNone" ELSE "VerifyPeer"

VerifyOption(opts) ==
    IF opts.SSLAllowInvalidCert THEN "VerifyNone" ELSE "VerifyPeer"

StepCAFile(b, opts, fails) ==
    IF opts.SSLCAFile = "" THEN b
    ELSE
      LET b1 == Try(b, "LoadClientCAFile", fails, <<"LoadClientCAFile">>,
                    [b.ctx EXCEPT !.clientCAList = opts.SSLCAFile])
          b2 == Try(b1, "LoadVerifyLocations", fails, <<"LoadVerifyLocations">>,
                    [b1.ctx EXCEPT !.verifyLocations = opts.SSLCAFile])
      IN Set(b2, [b2.ctx EXCEPT !.verify = VerifyOption(opts)])

\* lookup.LoadCRLFile's result is discarded: the call is logged, and the CRL
\* is in the store only if the load worked.
StepCRLFile(b, opts, fails) ==
    IF opts.SSLCRLFile = "" THEN b
    ELSE
      LET b1 == Set(b, [b.ctx EXCEPT !.storeFlags = @ \cup {"CRLCheck"}])
          b2 == Try(b1, "AddLookup", fails, <<"AddLookup(X509LookupFile())">>, b1.ctx)
      IN IF b2.err # NoError THEN b2
         ELSE [b2 EXCEPT !.calls = Append(@, "LoadCRLFile"),
                         !.ctx = IF "LoadCRLFile" \in fails THEN b2.ctx
                                 ELSE [b2.ctx EXCEPT !.crl = opts.SSLCRLFile]]

\* setupCtx(opts): [ctx, err, calls]; ctx is nil whenever err is not.
setupCtx(opts, fails) ==
    LET b1 == StepFIPSMode(BuildStart, opts, fails)
        b2 == StepNewCtx(b1, opts, fails)
        b3 == StepSetOptions(b2)
        b4 == StepSetCipherList(b3)
        b5 == StepPEMKeyFile(b4, opts, fails)
        b6 == StepSetMode(b5)
        b7 == StepSessionCache(b6)
        b8 == StepCAFile(b7, opts, fails)
        b9 == StepCRLFile(b8, opts, fails)
    IN [ ctx |-> IF b9.err # NoError THEN NULL ELSE b9.ctx,
         err |-> b9.err,
         calls |-> b9.calls ]

----------------------------------------------------------------------------
(* SSLDBConnector.Configure *)

\* util.CreateConnectionAddrs(host, port): one "host:port" per listed host.
CreateConnectionAddrs(host, port) == [i \in DOMAIN host |-> <<host[i], port>>]

InsecureSkipHostVerification == "InsecureSkipHostVerification"
NoDialFlags == "0"

DialFlagsBad(opts) ==
    IF opts.SSLAllowInvalidCert \/ opts.SSLCAFile = ""
    THEN InsecureSkipHostVerification ELSE NoDialFlags

\* the flags the dialer closure captures
DialFlags(opts) ==
    IF opts.SSLAllowInvalidCert \/ opts.SSLAllowInvalidHost \/ opts.SSLCAFile = ""
    THEN InsecureSkipHostVerification ELSE NoDialFlags

\* the mgo.DialInfo Configure installs; DialServer is the dialer closure,
\* held as the flags it captured (self.ctx it reads when it runs)
NewDialInfo(opts) ==
    [ Addrs |-> CreateConnectionAddrs(opts.Host, opts.Port),
      Timeout |-> DefaultSSLDialTimeout,
      DialServer |-> [flags |-> DialFlags(opts)],
      Username |-> opts.Auth.Username,
      Password |-> opts.Auth.Password,
      Source |-> opts.Auth.Source,
      Mechanism |-> opts.Auth.Mechanism ]

Idle == [pc |-> "idle", info |-> NULL, dialed |-> FALSE, okconn |-> FALSE, own |-> FALSE]
AllIdle == \A t \in Threads : call[t].pc = "idle"

\* One Configure call.  The owner calls Configure and GetNewSession in
\* sequence, so it runs while no GetNewSession call is in flight; self.ctx is
\* assigned before the error is looked at, self.dialInfo only on success.
Configure(opts, fails) ==
    LET r == setupCtx(opts, fails) IN
    /\ AllIdle
    /\ ctx' = r.ctx
    /\ fipsMode' = IF "FIPSModeSet" \in fails THEN fipsMode ELSE opts.SSLFipsMode
    /\ dialInfo' = IF r.err # NoError THEN dialInfo ELSE NewDialInfo(opts)
    /\ lastConf' = [ opts |-> opts, fails |-> fails, calls |-> r.calls,
                     err |-> IF r.err # NoError THEN <<"setupCtx">> \o r.err ELSE NoError ]
    /\ ev' = [kind |-> "configure"]
    /\ UNCHANGED <<dialError, call>>

----------------------------------------------------------------------------
(* the dialer closure and SSLDBConnector.GetNewSession *)

Range(f) == { f[i] : i \in DOMAIN f }

NoSession == "nil"
Session == "session"

\* mgo.DialWithInfo(nil): info.Addrs is read through a nil pointer.
NilDereference == <<"panic: invalid memory address or nil pointer dereference">>

\* GetNewSession called while self.dialInfo is nil.
GetNewSessionNil(t) ==
    /\ call[t].pc = "idle"
    /\ dialInfo = NULL
    /\ ev' = [kind |-> "panic", by |-> t, err |-> NilDereference]
    /\ UNCHANGED <<ctx, dialInfo, dialError, fipsMode, call, lastConf>>

\* GetNewSession hands self.dialInfo to mgo.DialWithInfo.
DialWithInfoBegin(t) ==
    /\ call[t].pc = "idle"
    /\ dialInfo # NULL
    /\ call' = [call EXCEPT ![t] = [ pc |-> "dialing", info |-> dialInfo,
                                     dialed |-> FALSE, okconn |-> FALSE, own |-> FALSE ]]
    /\ ev' = [kind |-> "begin", by |-> t]
    /\ UNCHANGED <<ctx, dialInfo, dialError, fipsMode, lastConf>>

\* What one run of the dialer leaves in the connector: self.dialError.
DialerRecordBad(old, err) == IF err = NoError THEN old ELSE err

DialerRecord(old, err) == err

DialerBad(t) ==
    /\ call[t].pc = "dialing"
    /\ \E addr \in Range(call[t].info.Addrs), err \in {NoError} \cup DialErrors :
         /\ dialError' = DialerRecord(dialError, err)
         /\ ctx' = IF err # NoError THEN NULL ELSE ctx
         /\ call' = [u \in Threads |->
                       IF u = t
                       THEN [call[t] EXCEPT !.dialed = TRUE,
                                            !.okconn = @ \/ err = NoError,
                                            !.own = TRUE]
                       ELSE [call[u] EXCEPT !.own = FALSE]]
         /\ ev' = [ kind |-> "dial", by |-> t, addr |-> addr, ctx |-> ctx,
                    flags |-> call[t].info.DialServer.flags, err |-> err ]
    /\ UNCHANGED <<dialInfo, fipsMode, lastConf>>

\* mgo runs info.DialServer on one of info.Addrs: openssl.Dial with self.ctx
\* as it is now and the captured flags; it returns a connection (err = nil)
\* or one of DialErrors.  call[u].own tells whether self.dialError was
\* written by a dialer run of u's current GetNewSession call.
Dialer(t) ==
    /\ call[t].pc = "dialing"
    /\ \E addr \in Range(call[t].info.Addrs), err \in {NoError} \cup DialErrors :
         /\ dialError' = DialerRecord(dialError, err)
         /\ call' = [u \in Threads |->
                       IF u = t
                       THEN [call[t] EXCEPT !.dialed = TRUE,
                                            !.okconn = @ \/ err = NoError,
                                            !.own = TRUE]
                       ELSE [call[u] EXCEPT !.own = FALSE]]
         /\ ev' = [ kind |-> "dial", by |-> t, addr |-> addr, ctx |-> ctx,
                    flags |-> call[t].info.DialServer.flags, err |-> err ]
    /\ UNCHANGED <<ctx, dialInfo, fipsMode, lastConf>>

GetNewSessionResultBad(session, err, dErr) ==
    IF err # NoError \/ dErr # NoError
    THEN [session |-> NoSession, err |-> err \o <<"openssl error">> \o dErr]
    ELSE [session |-> session, err |-> err]

\* what GetNewSession returns, given what mgo.DialWithInfo returned and
\* self.dialError
GetNewSessionResult(session, err, dErr) ==
    IF err # NoError /\ dErr # NoError
    THEN [session |-> NoSession, err |-> err \o <<"openssl error">> \o dErr]
    ELSE [session |-> session, err |-> err]

\* mgo.DialWithInfo returns: a session (only when some dialer run of this
\* call returned a connection) or one of SessionErrors; GetNewSession then
\* returns.  Lines 72-73 read self.dialError with no call or store between
\* the two reads: they are one step.
GetNewSessionReturn(t) ==
    /\ call[t].pc = "dialing"
    /\ \E m \in (IF call[t].okconn THEN {[session |-> Session, err |-> NoError]} ELSE {})
               \cup { [session |-> NoSession, err |-> e] : e \in SessionErrors } :
         LET r == GetNewSessionResult(m.session, m.err, dialError) IN
         ev' = [ kind |-> "return", by |-> t, sessErr |-> m.err, own |-> call[t].own,
                 session |-> r.session, err |-> r.err ]
    /\ call' = [call EXCEPT ![t] = Idle]
    /\ UNCHANGED <<ctx, dialInfo, dialError, fipsMode, lastConf>>

----------------------------------------------------------------------------
(* Specifications *)

Init ==
    /\ ctx = NULL
    /\ dialInfo = NULL
    /\ dialError = NoError
    /\ fipsMode = FALSE
    /\ call = [t \in Threads |-> Idle]
    /\ lastConf = NULL
    /\ ev = [kind |-> "new"]

\* Configure on a newly constructed connector, over every option record.
ConfigureNew ==
    /\ lastConf = NULL
    /\ \E opts \in ToolOptions, fails \in FailSets : Configure(opts, fails)

NextBuild == ConfigureNew

SpecBuild == Init /\ [][NextBuild]_vars

\* The option records and library failures the connector's life is explored
\* over: no client certificate, no FIPS.
LifeOptions ==
    { o \in ToolOptions :
        /\ o.SSLPEMKeyFile = "" /\ o.SSLPEMKeyPassword = ""
        /\ ~o.SSLFipsMode
        /\ o.Auth.Username = "u" }
LifeFails == { {}, {"NewCtxWithVersion"}, {"LoadVerifyLocations"}, {"LoadCRLFile"} }

ConfigureCall ==
    \E opts \in LifeOptions, fails \in LifeFails : Configure(opts, fails)

GetNewSession ==
    \E t \in Threads :
        \/ GetNewSessionNil(t)
        \/ DialWithInfoBegin(t)
        \/ Dialer(t)
        \/ GetNewSessionReturn(t)

Next == ConfigureCall \/ GetNewSession

Spec == Init /\ [][Next]_vars

----------------------------------------------------------------------------
(* Properties *)

ConfigureSucceeded == lastConf # NULL /\ lastConf.err = NoError
Contains(e, part) ==
    \E i \in 1..Len(e) : i + Len(part) - 1 <= Len(e) /\ SubSeq(e, i, i + Len(part) - 1) = part

\* C1: after a Configure that succeeds on an option record, the flags the
\* dialer uses are "skip host verification" exactly when the CA file is
\* empty or allow-invalid-certificate or allow-invalid-hostname is set, and
\* are the strict (zero) flags otherwise.
C1_StrictnessFlag ==
    ConfigureSucceeded =>
        LET o == lastConf.opts
            relaxed == o.SSLCAFile = "" \/ o.SSLAllowInvalidCert \/ o.SSLAllowInvalidHost
        IN /\ dialInfo # NULL
           /\ relaxed => dialInfo.DialServer.flags = InsecureSkipHostVerification
           /\ ~relaxed => dialInfo.DialServer.flags = NoDialFlags

C1_Witness ==
    /\ ConfigureSucceeded
    /\ lastConf.opts.SSLCAFile # ""
    /\ ~lastConf.opts.SSLAllowInvalidCert
    /\ lastConf.opts.SSLAllowInvalidHost
    /\ dialInfo.DialServer.flags = InsecureSkipHostVerification

\* C2: while Configure was never called or the most recent Configure failed,
\* every GetNewSession ends with NotConfiguredError and no dialer runs.
NotConfiguredError == <<"NotConfiguredError">>
Unconfigured == lastConf = NULL \/ lastConf.err # NoError
C2_DialBeforeConfigure ==
    Unconfigured =>
        /\ ev.kind \in {"return", "panic"} => ev.err = NotConfiguredError
        /\ ev.kind # "dial"
        /\ \A t \in Threads : ~call[t].dialed

\* C3: when a CRL file is given and loading it fails, Configure fails with
\* the CRL step's error, stores no context, and no dialer runs.
CRLLoadFailed ==
    /\ lastConf # NULL
    /\ lastConf.opts.SSLCRLFile # ""
    /\ \E i \in DOMAIN lastConf.calls :
         lastConf.calls[i] = "LoadCRLFile" /\ "LoadCRLFile" \in lastConf.fails
IsCRLLoadError(e) ==
    e # NoError /\ e[Len(e)] \in {"AddLookup(X509LookupFile())", "LoadCRLFile"}
C3_CRLLoadFails ==
    CRLLoadFailed =>
        /\ IsCRLLoadError(lastConf.err)
        /\ ctx = NULL
        /\ ev.kind # "dial"

\* C4: the build is fail-fast in build order: when a step of the order
\* fails, Configure returns the error of the first failing step, no call of
\* a later step is made, no context is stored and no dial info is installed.
BuildOrder ==
    << {"FIPSModeSet"}, {"NewCtxWithVersion"}, {"UseCertificateChainFile"},
       {"UsePrivateKeyFileWithPassword", "UsePrivateKeyFile"}, {"CheckPrivateKey"},
       {"LoadClientCAFile"}, {"LoadVerifyLocations"}, {"AddLookup", "LoadCRLFile"} >>
StepErrors ==
    << {"couldn't set FIPS mode"},
       {"failure creating new openssl context with NewCtxWithVersion(AnyVersion)"},
       {"UseCertificateChainFile"}, {"UsePrivateKeyFile"}, {"CheckPrivateKey"},
       {"LoadClientCAFile"}, {"LoadVerifyLocations"},
       {"AddLookup(X509LookupFile())", "LoadCRLFile"} >>
Applies(c, o) ==
    CASE c \in {"FIPSModeSet", "NewCtxWithVersion"} -> TRUE
      [] c \in {"UseCertificateChainFile", "CheckPrivateKey"} -> o.SSLPEMKeyFile # ""
      [] c = "UsePrivateKeyFileWithPassword" ->
             o.SSLPEMKeyFile # "" /\ o.SSLPEMKeyPassword # ""
      [] c = "UsePrivateKeyFile" -> o.SSLPEMKeyFile # "" /\ o.SSLPEMKeyPassword = ""
      [] c \in {"LoadClientCAFile", "LoadVerifyLocations"} -> o.SSLCAFile # ""
      [] c \in {"AddLookup", "LoadCRLFile"} -> o.SSLCRLFile # ""
StepFails(i, o, f) == \E c \in BuildOrder[i] : Applies(c, o) /\ c \in f
IsFirstFailing(i, o, f) ==
    StepFails(i, o, f) /\ \A j \in 1..(i - 1) : ~StepFails(j, o, f)
C4_FailFast ==
    lastConf # NULL =>
        \A i \in DOMAIN BuildOrder :
            IsFirstFailing(i, lastConf.opts, lastConf.fails) =>
                /\ lastConf.err # NoError
                /\ lastConf.err[Len(lastConf.err)] \in StepErrors[i]
                /\ \A k \in DOMAIN lastConf.calls :
                       \E j \in 1..i : lastConf.calls[k] \in BuildOrder[j]
                /\ ctx = NULL
                /\ dialInfo = NULL

DialKinds == {"begin", "dial", "return", "panic"}
C6_DialLeavesConfiguration ==
    [][(dialInfo # NULL /\ ev'.kind \in DialKinds) => (ctx' = ctx /\ dialInfo' = dialInfo)]_vars

C6_Witness ==
    /\ ev.kind = "return"
    /\ ConfigureSucceeded
    /\ ctx # NULL
    /\ dialError # NoError

\* C7: after the first successful Configure, no step (a later Configure
\* included) changes the stored context or the flags the dialer uses.
C7_BuiltOnce ==
    [][dialInfo # NULL =>
          /\ ctx' = ctx
          /\ dialInfo' # NULL
          /\ dialInfo'.DialServer.flags = dialInfo.DialServer.flags]_vars

\* C8: the openssl error GetNewSession puts into its returned error was
\* recorded by a dialer run of that same GetNewSession call.
C8_OwnDialError ==
    (ev.kind = "return" /\ Contains(ev.err, <<"openssl error">>)) => ev.own

\* C9: in a built context the verify mode is set only when a CA file is
\* given (VerifyNone with allow-invalid-certificate, VerifyPeer without) and
\* is the library default otherwise; allow-invalid-hostname does not change
\* the context built.
FlipAllowInvalidHost(o) == [o EXCEPT !.SSLAllowInvalidHost = ~@]
C9_VerifyMode ==
    ConfigureSucceeded =>
        LET o == lastConf.opts IN
        /\ ctx # NULL
        /\ o.SSLCAFile = "" => ctx.verify = "default"
        /\ (o.SSLCAFile # "" /\ o.SSLAllowInvalidCert) => ctx.verify = "VerifyNone"
        /\ (o.SSLCAFile # "" /\ ~o.SSLAllowInvalidCert) => ctx.verify = "VerifyPeer"
        /\ setupCtx(FlipAllowInvalidHost(o), lastConf.fails).ctx = ctx

C9_Witness ==
    /\ ConfigureSucceeded
    /\ lastConf.opts.SSLCAFile # ""
    /\ lastConf.opts.SSLAllowInvalidHost
    /\ ~lastConf.opts.SSLAllowInvalidCert
    /\ ctx.verify = "VerifyPeer"

\* C10: every context a successful build returns has all bug workarounds on
\* with SSLv2 off, the fixed cipher list, auto-retry on and session caching
\* off; and every connection a dialer opens uses a context with session
\* caching off.
Hardened(c) ==
    /\ c.options = {"OpAll", "NoSSLv2"}
    /\ c.cipherList = "HIGH:!EXPORT:!aNULL@STRENGTH"
    /\ "AutoRetry" \in c.mode
    /\ c.sessionCacheMode = "SessionCacheOff"
C10_Hardening ==
    /\ ConfigureSucceeded => (ctx # NULL /\ Hardened(ctx))
    /\ (ev.kind = "dial" /\ ev.err = NoError) =>
           (ev.ctx # NULL /\ ev.ctx.sessionCacheMode = "SessionCacheOff")

====
